---------------------------- MODULE Spec2Model ----------------------------
(***************************************************************************)
(* Model of helper/zoom_attendance_report.py: Meeting (one parsed zoom     *)
(* report) and MeetingSet (grouping of meetings by attendee overlap).      *)
(*                                                                         *)
(* A run of MeetingSet.process() pulls Meeting objects one at a time from  *)
(* the generator iter_csvs(), which walks dir_path.iterdir().  Every       *)
(* directory entry is one step of the model: the entry is skipped, the     *)
(* Meeting constructor raises, or the meeting is grouped.                  *)
(***************************************************************************)
EXTENDS Integers, Sequences, FiniteSets, TLC

VARIABLES
    groups,       \* MeetingSet.groups: list of lists of Meeting
    group_map,    \* MeetingSet.group_map: file name -> label (empty: None)
    group_dict,   \* MeetingSet.group_dict: label -> list object
    records,      \* helper.students[s].zoom_attendance_record, per student
    pc,           \* position of process(): "iterating", "done", or "raised"
                  \* once an exception has left a method of the MeetingSet
    meeting,      \* loop variable of process(): the Meeting last yielded
    match,        \* loop variable of process(): index of the matched group, 0 for []
    ingested,     \* every Meeting iter_csvs() has yielded so far, in order
    rows_read,    \* number of attendee rows read so far
    directory,    \* the entries of dir_path, when the run is over a known directory
    todo,         \* entries of the directory iterdir() has not produced yet
    run,          \* which MeetingSet over the directory is running (1 or 2)
    prev_groups,  \* groups of the previous MeetingSet over the same directory
    filled,       \* TRUE once fill_group_dict() has been called
    writer,       \* the ExcelWriter made for the MeetingSet, if any
    itercsv,      \* the IterCsv a roster csv is read with, if any
    trust_topics, \* MeetingSet.trust_topics
    grade_level   \* helper.students[s].grade_level, per student

vars == <<groups, group_map, group_dict, records, pc, meeting, match, ingested,
          rows_read, directory, todo, run, prev_groups, filled, writer,
          itercsv, trust_topics, grade_level>>

---------------------------------------------------------------------------
(* Bounds of the model *)

\* at most this many report files are grouped in one run
MaxFiles == 3

\* at most this many attendee rows are read in one run, over all files
MaxTotalRows == 5

\* at most this many data rows follow the header row of a roster csv
MaxCsvRows == 3

---------------------------------------------------------------------------
(* The roster (helper.students) and the name matcher *)

None == "None"

Students == {"A", "B", "C", "D", "X", "Y", "Z"}

\* Exceptions that take the place of a returned value
Warning == "Warning"
IndexError == "IndexError"

\* helper.find_nearest_match(name, auto_yes=True) for the raw zoom names that
\* occur in the reports: the student, None ("zz" matches nobody), or the
\* Warning that match_student catches (lines 160-163).
ResolveTable ==
    [a |-> "A", b |-> "B", c |-> "C", d |-> "D", x |-> "X", y |-> "Y",
     z |-> "Z", zz |-> None, wb |-> Warning, wz |-> Warning]

\* A Python int, and the str that spells the number n
IntValue(n) == [type |-> "int", v |-> n]

StrValue(n) == [type |-> "str", v |-> n]

\* a == b of two such values: a str never equals an int
PyEq(a, b) == a.type = b.type /\ a.v = b.v

\* The grades of the students of helper.students: one student is alone in
\* grade 7, nobody is in grade 8
Grades == [A |-> 6, B |-> 6, C |-> 6, D |-> 6, X |-> 6, Y |-> 6, Z |-> 7]

\* s.grade_level as the roster holds it: the text the roster was read from
\* (parse_homeroom passes path.stem[1] on to Student, new_school_year the
\* field of the csv row), or that text made an int
GradesAsRead == [s \in Students |-> StrValue(Grades[s])]

GradesAsInt == [s \in Students |-> IntValue(Grades[s])]

\* s.first_name of the students of helper.students
first_name ==
    [A |-> "Ann", B |-> "Bob", C |-> "Cy", D |-> "Dee", X |-> "Xi", Y |-> "Yu",
     Z |-> "Zed"]

\* The score process.extract gives a first name for a raw zoom name: "wb" is
\* a spelling of Bob and "wz" one of Zed, no other pair is alike.
FirstNameScore(student_name, choice) ==
    IF student_name = "wb" /\ choice = "Bob" THEN 100
    ELSE IF student_name = "wz" /\ choice = "Zed" THEN 95
    ELSE 30

\* Meeting.try_matching_student_within_grade: the first names of the
\* students whose grade_level equals the int grade of the meeting are scored; first_name_match[0] of an empty list and first_name_match[1]
\* of a list of one raise IndexError; a best score above 90 returns the
\* student of that first name, any other returns None.
try_matching_student_within_grade(student_name, grade) ==
    LET choices == { s \in Students : PyEq(grade_level[s], IntValue(grade)) }
    IN  IF choices = {} THEN IndexError
        ELSE LET best == CHOOSE s \in choices : \A t \in choices :
                            FirstNameScore(student_name, first_name[s])
                               >= FirstNameScore(student_name, first_name[t])
             IN  IF FirstNameScore(student_name, first_name[best]) > 90
                 THEN IF Cardinality(choices) < 2 THEN IndexError
                      ELSE CHOOSE s \in Students : first_name[s] = first_name[best]
                 ELSE None

\* Meeting.match_student for a meeting of the grade: the student for a raw
\* name, or None, or the IndexError of the fallback.  When find_nearest_match
\* raises Warning the name is matched within the grade; re.split(' |.', name)
\* (line 167) splits at every character, so its loop has no part to try.
match_student(name, grade) ==
    IF ResolveTable[name] # Warning THEN ResolveTable[name]
    ELSE try_matching_student_within_grade(name, grade)

\* The attendee rows (rows[4:]) a report may hold: row[0] name, row[2] duration.
RowChoices ==
    { [name |-> "a", duration |-> "40"], [name |-> "b", duration |-> "20"],
      [name |-> "c", duration |-> "10"], [name |-> "zz", duration |-> "5"] }

---------------------------------------------------------------------------
(* Pure helpers *)

Range(s) == { s[i] : i \in DOMAIN s }

\* dict.setdefault(k, v) on a dict modelled as a function
SetDefault(d, k, v) ==
    IF k \in DOMAIN d THEN d
    ELSE [x \in DOMAIN d \cup {k} |-> IF x = k THEN v ELSE d[x]]

\* d[k] = v on a dict modelled as a function
SetItem(d, k, v) == [x \in DOMAIN d \cup {k} |-> IF x = k THEN v ELSE d[x]]

EmptyDict == [x \in {} |-> None]

Digits == {"0", "1", "2", "3", "4", "5", "6", "7", "8", "9"}

\* int(c) for a one-character string c that is a digit
DigitValue(c) ==
    CASE c = "0" -> 0 [] c = "1" -> 1 [] c = "2" -> 2 [] c = "3" -> 3
      [] c = "4" -> 4 [] c = "5" -> 5 [] c = "6" -> 6 [] c = "7" -> 7
      [] c = "8" -> 8 [] c = "9" -> 9

\* int(s) of a string of digits, given as a sequence of characters
IsNumber(chars) == chars # <<>> /\ \A i \in DOMAIN chars : chars[i] \in Digits

RECURSIVE ParseInt(_)
ParseInt(chars) ==
    IF chars = <<>> THEN 0
    ELSE 10 * ParseInt(SubSeq(chars, 1, Len(chars) - 1))
         + DigitValue(chars[Len(chars)])

---------------------------------------------------------------------------
(* Directory entries: a file name and, for a report, its csv rows *)

\* name[-4:] of a file name given as a sequence of characters
Last4(name) ==
    IF Len(name) <= 4 THEN name ELSE SubSeq(name, Len(name) - 3, Len(name))

DotCsv == <<".", "c", "s", "v">>

FileStems == <<"a", "b", "c", "d", "e", "f", "g">>

\* The name of the i-th report of the directory, e.g. 6a.csv
NameAt(i) == <<"6", FileStems[i]>> \o DotCsv

Days == <<24, 22, 25, 23, 28, 21, 27>>
Hours == <<10, 1, 9, 11, 2, 8, 3>>
Markers == <<"AM", "PM", "AM", "AM", "PM", "AM", "PM">>

\* rows[1] of the i-th report: topic rows[1][1], start time rows[1][2] (its
\* numeric fields month, day, year, hour, minute and its am/pm marker),
\* duration rows[1][5]
InfoAt(i) ==
    [ topic    |-> "Health",
      time     |-> [fields |-> <<9, Days[i], 2020, Hours[i], 13>>,
                    marker |-> Markers[i]],
      duration |-> <<"4", "5">> ]

\* A well-formed report: rows[2] is blank, rows[4:] are the attendee rows
Report(i, rows) ==
    [name |-> NameAt(i), info |-> InfoAt(i), row2 |-> <<>>, rows |-> rows]

\* Entries iter_csvs() skips
SkippedEntries ==
    { [name |-> <<"n", "o", "t", "e", "s", ".", "t", "x", "t">>,
       info |-> InfoAt(1), row2 |-> <<>>, rows |-> <<>>],
      [name |-> <<"~", "6", "a">> \o DotCsv,
       info |-> InfoAt(1), row2 |-> <<>>, rows |-> <<>>],
      [name |-> <<".", "6", "a">> \o DotCsv,
       info |-> InfoAt(1), row2 |-> <<>>, rows |-> <<>>] }

\* Reports on which Meeting.open_report raises
BrokenReports(i) ==
    { \* the file name does not start with the grade level
      [Report(i, <<>>) EXCEPT !.name = <<"x", FileStems[i]>> \o DotCsv],
      \* no meeting information: the third row is an attendee row
      [Report(i, <<>>) EXCEPT !.row2 = <<"a", "a@x.org", "40">>],
      \* the duration is not a number
      [Report(i, <<>>) EXCEPT !.info.duration = <<"n", "/", "a">>],
      \* the start time has no minute
      [Report(i, <<>>) EXCEPT !.info.time.fields = <<9, Days[i], 2020>>] }

---------------------------------------------------------------------------
(* Meeting *)

IsLeap(y) == (y % 4 = 0 /\ y % 100 # 0) \/ y % 400 = 0

DaysInMonth(y, m) ==
    IF m = 2 THEN (IF IsLeap(y) THEN 29 ELSE 28)
    ELSE IF m \in {4, 6, 9, 11} THEN 30 ELSE 31

\* datetime(year, month, day, hour, minute) raises ValueError outside these
DatetimeValid(year, month, day, hour, minute) ==
    /\ year \in 1..9999
    /\ month \in 1..12
    /\ day \in 1..DaysInMonth(year, month)
    /\ hour \in 0..23
    /\ minute \in 0..59

\* Lines 117-128: the start time of the report, or None when unpacking the
\* fields or datetime() raises.
ParseTime(time) ==
    IF Len(time.fields) < 5 THEN None
    ELSE LET month  == time.fields[1]
             day    == time.fields[2]
             year   == time.fields[3]
             hour   == IF time.marker \in {"PM", "pm"}
                       THEN time.fields[4] + 12 ELSE time.fields[4]
             minute == time.fields[5]
         IN  IF DatetimeValid(year, month, day, hour, minute)
             THEN <<year, month, day, hour, minute>>
             ELSE None

\* Lines 101-128: TRUE when open_report raises before reading the attendees
OpenReportRaises(e) ==
    \/ e.name[1] \notin Digits          \* NotImplementedError
    \/ e.row2 # <<>>                     \* Exception: no meeting information
    \/ ~IsNumber(e.info.duration)       \* int() raises ValueError
    \/ ParseTime(e.info.time) = None     \* ValueError

\* Lines 131-133: the attendee rows (rows[4:]) match_student raises on
RaisingRows(e) ==
    { i \in DOMAIN e.rows :
        match_student(e.rows[i].name, DigitValue(e.name[1])) = IndexError }

\* Meeting(path) raises: in the head of open_report or at an attendee row
MeetingRaises(e) == OpenReportRaises(e) \/ RaisingRows(e) # {}

\* The attendee rows open_report has dealt with when it returns or raises
RowsBeforeRaise(e) ==
    IF RaisingRows(e) = {} THEN e.rows
    ELSE SubSeq(e.rows, 1,
                (CHOOSE i \in RaisingRows(e) : \A j \in RaisingRows(e) : i <= j) - 1)

\* self.topic + ';' + self.datetime.isoformat()
RecordKey(topic, datetime) == <<topic, datetime>>

\* Lines 131-140: the attendees appended for the rows[4:] of the report
RECURSIVE Attendees(_, _)
Attendees(rows, grade) ==
    IF rows = <<>> THEN <<>>
    ELSE LET st == match_student(Head(rows).name, grade)
         IN  IF st = None THEN Attendees(Tail(rows), grade)
             ELSE <<st>> \o Attendees(Tail(rows), grade)

\* Lines 129-139: every student's zoom_attendance_record is reset, then the
\* matched rows are entered with setdefault, first row first.
RECURSIVE EnterRows(_, _, _, _)
EnterRows(recs, key, rows, grade) ==
    IF rows = <<>> THEN recs
    ELSE LET st == match_student(Head(rows).name, grade)
         IN  IF st = None THEN EnterRows(recs, key, Tail(rows), grade)
             ELSE EnterRows(
                    [recs EXCEPT ![st] = SetDefault(@, key, Head(rows).duration)],
                    key, Tail(rows), grade)

ResetRecords == [s \in Students |-> EmptyDict]

\* Meeting(path) when open_report does not raise
NewMeeting(e) ==
    [ path        |-> e.name,
      grade_level |-> DigitValue(e.name[1]),
      duration    |-> ParseInt(e.info.duration),
      topic       |-> e.info.topic,
      datetime    |-> ParseTime(e.info.time),
      attendees   |-> Attendees(e.rows, DigitValue(e.name[1])) ]

\* The records when open_report returns, or raises at an attendee row
RecordsAfterOpen(e) ==
    EnterRows(ResetRecords,
              RecordKey(e.info.topic, ParseTime(e.info.time)),
              RowsBeforeRaise(e), DigitValue(e.name[1]))

\* Meeting.__gt__
MeetingGt(m1, m2) == Len(m1.attendees) > Len(m2.attendees)

\* max(group): the first element no later element is greater than
RECURSIVE MaxFrom(_, _)
MaxFrom(best, rest) ==
    IF rest = <<>> THEN best
    ELSE IF MeetingGt(Head(rest), best) THEN MaxFrom(Head(rest), Tail(rest))
         ELSE MaxFrom(best, Tail(rest))

MaxMeeting(group) == MaxFrom(Head(group), Tail(group))

---------------------------------------------------------------------------
(* MeetingSet *)

\* Mutant: the adjustment set to 0.5
RatioOneHalf == [num |-> 1, den |-> 2]

\* self.TOTAL_TO_UNION_RATIO_ADJUSTMENT = 0.75, as a fraction
TOTAL_TO_UNION_RATIO_ADJUSTMENT == [num |-> 3, den |-> 4]

\* {s.name for s in m.attendees}
AttendeeNames(m) == Range(m.attendees)

\* Mutant: the test of line 400 with >= for >
GroupMatchesGeq(group, m) ==
    LET past_meeting  == MaxMeeting(group)
        pm__attendees == Range(past_meeting.attendees)
        cm__attendees == Range(m.attendees)
        union == Cardinality(pm__attendees \cup cm__attendees)
        total == Cardinality(pm__attendees) + Cardinality(cm__attendees)
    IN  total * 3 >= union * 4

\* Lines 390-400: the test of one group against the meeting
GroupMatches(group, m) ==
    LET past_meeting  == MaxMeeting(group)
        pm__attendees == AttendeeNames(past_meeting)
        cm__attendees == AttendeeNames(m)
        union == Cardinality(pm__attendees \cup cm__attendees)
        total == Cardinality(pm__attendees) + Cardinality(cm__attendees)
    IN  total * TOTAL_TO_UNION_RATIO_ADJUSTMENT.num
            > union * TOTAL_TO_UNION_RATIO_ADJUSTMENT.den

\* Lines 387-403: the groups are tried from index i on; the index of the
\* first group that passes, 0 when none does
RECURSIVE FirstMatchFrom(_, _, _)
FirstMatchFrom(gs, m, i) ==
    IF i > Len(gs) THEN 0
    ELSE IF GroupMatches(gs[i], m) THEN i
         ELSE FirstMatchFrom(gs, m, i + 1)

\* Mutant: the last group that passes is returned, not the first
LastMatch(gs, m) ==
    IF \E i \in DOMAIN gs : GroupMatches(gs[i], m)
    THEN CHOOSE i \in DOMAIN gs :
            /\ GroupMatches(gs[i], m)
            /\ \A j \in (i + 1)..Len(gs) : ~GroupMatches(gs[j], m)
    ELSE 0

\* MeetingSet.match_meeting_with_group_by_union: the index in gs of the group
\* returned, 0 for the empty list returned when no group matches
match_meeting_with_group_by_union(gs, m) == FirstMatchFrom(gs, m, 1)

\* A value of group_dict is a list object: a group of self.groups (by its
\* index, groups are never removed or moved), or the fresh list [meeting]
\* made at line 313.
GroupRef(i) == [kind |-> "group", index |-> i]
FreshList(m) == [kind |-> "fresh", items |-> <<m>>]

\* Mutant: without a match the meeting goes into the newest group
GroupsAfterNoNewGroup(gs, m, mt) ==
    IF mt # 0 THEN [gs EXCEPT ![mt] = Append(@, m)]
    ELSE IF gs = <<>> THEN <<<<m>>>>
         ELSE [gs EXCEPT ![Len(gs)] = Append(@, m)]

\* Mutant: a new group is put before the groups there are
GroupsAfterNewGroupFirst(gs, m, mt) ==
    IF mt # 0 THEN [gs EXCEPT ![mt] = Append(@, m)]
    ELSE <<<<m>>>> \o gs

\* Lines 306-318: the groups after the loop body of process(), mt being the
\* match found for m
GroupsAfter(gs, m, mt) ==
    IF mt # 0 THEN [gs EXCEPT ![mt] = Append(@, m)]
    ELSE Append(gs, <<m>>)

\* Lines 306-313: the group_dict after the loop body of process()
GroupDictAfter(gd, gm, m, mt) ==
    IF mt # 0 /\ DOMAIN gm # {} /\ m.path \in DOMAIN gm
    THEN SetItem(gd, gm[m.path], FreshList(m))
    ELSE gd

\* Lines 449-452: iter_csvs() passes over the entry
IsSkipped(e) ==
    \/ Last4(e.name) # DotCsv
    \/ e.name[1] = "~"
    \/ e.name[1] = "."

\* MeetingSet.fill_group_dict: groups in order, the first meeting of each
\* group with a (truthy) label sets the label to the group.
RECURSIVE TaggedIn(_, _)
TaggedIn(group, gm) ==
    IF group = <<>> THEN None
    ELSE IF Head(group).path \in DOMAIN gm /\ gm[Head(group).path] # ""
         THEN gm[Head(group).path]
         ELSE TaggedIn(Tail(group), gm)

\* Mutant: the group is added to the list the label already has
RECURSIVE FillFromAccumulate(_, _, _, _)
FillFromAccumulate(gd, gm, gs, i) ==
    IF i > Len(gs) THEN gd
    ELSE LET label == TaggedIn(gs[i], gm)
             old   == IF label \in DOMAIN gd /\ gd[label].kind = "fresh"
                      THEN gd[label].items ELSE <<>>
         IN  IF label = None THEN FillFromAccumulate(gd, gm, gs, i + 1)
             ELSE FillFromAccumulate(
                    SetItem(gd, label, [kind |-> "fresh", items |-> old \o gs[i]]),
                    gm, gs, i + 1)

RECURSIVE FillFrom(_, _, _, _)
FillFrom(gd, gm, gs, i) ==
    IF i > Len(gs) THEN gd
    ELSE LET label == TaggedIn(gs[i], gm)
         IN  IF label = None THEN FillFrom(gd, gm, gs, i + 1)
             ELSE FillFrom(SetItem(gd, label, GroupRef(i)), gm, gs, i + 1)

fill_group_dict(gd, gm, gs) == FillFrom(gd, gm, gs, 1)

\* The orders Path.iterdir() may yield the entries of a directory in
Orders(entries) ==
    { o \in [1..Cardinality(entries) -> entries] : Range(o) = entries }

\* MeetingSet.generate_group_map_from_topics, lines 422-424: a Meeting is
\* made of every entry of the directory, report or not, and its topic is set
\* for the file name; the Meeting that raises ends the loop.
RECURSIVE TopicsFrom(_, _, _)
TopicsFrom(paths, gm, recs) ==
    IF paths = <<>> THEN [raised |-> FALSE, group_map |-> gm, records |-> recs]
    ELSE IF MeetingRaises(Head(paths))
         THEN [raised |-> TRUE, group_map |-> gm,
               records |-> IF OpenReportRaises(Head(paths)) THEN recs
                           ELSE RecordsAfterOpen(Head(paths))]
         ELSE TopicsFrom(Tail(paths),
                         SetDefault(gm, Head(paths).name, Head(paths).info.topic),
                         RecordsAfterOpen(Head(paths)))

\* The characters of the topics of the reports
TopicChars == [Health |-> <<"H", "e", "a", "l", "t", "h">>]

DigitChars == <<"0", "1", "2", "3", "4", "5", "6", "7", "8", "9">>

\* The decimal digits of n, `width` of them
RECURSIVE Decimal(_, _)
Decimal(n, width) ==
    IF width = 0 THEN <<>>
    ELSE Decimal(n \div 10, width - 1) \o <<DigitChars[(n % 10) + 1]>>

\* MeetingSet.rename_csv_files, lines 435-438: the new name of a report is
\* its topic, a blank, the date of its start time (the text before the first
\* blank, every "/" made a "-": MM-DD-YYYY) and ".csv"
NewName(e) ==
    TopicChars[e.info.topic] \o <<" ">>
       \o Decimal(e.info.time.fields[1], 2) \o <<"-">>
       \o Decimal(e.info.time.fields[2], 2) \o <<"-">>
       \o Decimal(e.info.time.fields[3], 4) \o DotCsv

Renamed(entries) == { [e EXCEPT !.name = NewName(e)] : e \in entries }

---------------------------------------------------------------------------
(* Actions *)

\* iter_csvs() passes over an entry that is no report: nothing changes
Skip(e) ==
    /\ pc = "iterating"
    /\ IsSkipped(e)
    /\ UNCHANGED vars

\* Meeting(i) raises inside iter_csvs(): the exception leaves process().
\* When it is raised at an attendee row the records have been reset and the
\* rows before it entered.
Raise(e) ==
    /\ pc = "iterating"
    /\ ~IsSkipped(e)
    /\ MeetingRaises(e)
    /\ pc' = "raised"
    /\ records' = IF OpenReportRaises(e) THEN records ELSE RecordsAfterOpen(e)
    /\ rows_read' = IF OpenReportRaises(e) THEN rows_read
                    ELSE rows_read + Len(RowsBeforeRaise(e)) + 1
    /\ UNCHANGED <<groups, group_map, group_dict, meeting, match,
                   ingested, run, prev_groups, filled, writer,
                   itercsv, trust_topics,
                   grade_level>>

\* iter_csvs() yields Meeting(i) and the loop body of process() groups it
Group(e) ==
    /\ pc = "iterating"
    /\ ~IsSkipped(e)
    /\ ~MeetingRaises(e)
    /\ LET m  == NewMeeting(e)
           mt == match_meeting_with_group_by_union(groups, m)
       IN  /\ meeting' = m
           /\ match' = mt
           /\ groups' = GroupsAfter(groups, m, mt)
           /\ group_dict' = GroupDictAfter(group_dict, group_map, m, mt)
           /\ ingested' = Append(ingested, m)
    /\ records' = RecordsAfterOpen(e)
    /\ rows_read' = rows_read + Len(e.rows)
    /\ UNCHANGED <<group_map, pc, run, prev_groups, filled, writer, itercsv,
                   trust_topics,
                   grade_level>>

\* iterdir() is exhausted: process() returns
Finish ==
    /\ pc = "iterating"
    /\ pc' = "done"
    /\ UNCHANGED <<groups, group_map, group_dict, records, meeting, match,
                   ingested, rows_read, run, prev_groups, filled, writer,
                   itercsv, trust_topics,
                   grade_level>>

\* What iterdir() may produce next when the directory is not known: the
\* next report, with any attendee rows within the bounds, or a broken one, or
\* an entry that is no report.
ReportsWithin(choices, maxfiles) ==
    IF Len(ingested) < maxfiles
    THEN { Report(Len(ingested) + 1, rows) :
              rows \in UNION { [1..n -> choices] :
                                 n \in 0..(MaxTotalRows - rows_read) } }
    ELSE {}

NextReports == ReportsWithin(RowChoices, MaxFiles)

NextBroken == BrokenReports(Len(ingested) + 1)

SkipAny == \E e \in SkippedEntries : Skip(e) /\ UNCHANGED <<directory, todo>>

RaiseAny == \E e \in NextBroken : Raise(e) /\ UNCHANGED <<directory, todo>>

GroupAny == \E e \in NextReports : Group(e) /\ UNCHANGED <<directory, todo>>

FinishAny == todo = {} /\ Finish /\ UNCHANGED <<directory, todo>>

NoMeeting == [path |-> <<>>]

\* Python's None where a dict may stand, and a dict
NoThresholds == [type |-> "NoneType"]

Dict(items) == [type |-> "dict", items |-> items]

\* No ExcelWriter has been made, no IterCsv either
NoWriter ==
    [pc |-> "none", given |-> NoThresholds, thresholds |-> NoThresholds,
     sheet |-> EmptyDict]

NoIterCsv ==
    [pc |-> "none", rows |-> <<>>, current_row |-> 0, context |-> EmptyDict,
     yielded |-> <<>>]

\* Nothing has been read; the roster is left open
InitCalls ==
    /\ groups = <<>>
    /\ records = ResetRecords
    /\ pc = "iterating"
    /\ meeting = NoMeeting
    /\ match = 0
    /\ ingested = <<>>
    /\ rows_read = 0
    /\ run = 1
    /\ prev_groups = <<>>
    /\ filled = FALSE
    /\ writer = NoWriter
    /\ itercsv = NoIterCsv
    /\ trust_topics = FALSE

\* The same with the roster as the parsers of the roster files make it
InitRun == InitCalls /\ grade_level = GradesAsRead

\* MeetingSet(dir_path).process() over a directory that is not known
Init ==
    /\ InitRun
    /\ group_map = EmptyDict
    /\ group_dict = EmptyDict
    /\ directory = {}
    /\ todo = {}

Next == SkipAny \/ RaiseAny \/ GroupAny \/ FinishAny

Spec == Init /\ [][Next]_vars

\* The same run over a longer directory whose attendees are all on the
\* roster
RosterRows == { r \in RowChoices : r.name \in {"a", "b"} }

GroupLong ==
    \E e \in ReportsWithin(RosterRows, MaxFiles + 1) :
        Group(e) /\ UNCHANGED <<directory, todo>>

NextLong == SkipAny \/ RaiseAny \/ GroupLong \/ FinishAny

SpecLong == Init /\ [][NextLong]_vars

\* The same run with a group_map: some of the first two reports are tagged
\* with a label.  process() leaves the call of fill_group_dict() to its
\* caller (lines 329-330).
Labels == {"X", "Y"}

GroupMaps ==
    UNION { [names -> Labels] : names \in (SUBSET {NameAt(1), NameAt(2)}) \ {{}} }

InitLabels ==
    /\ InitRun
    /\ group_map \in GroupMaps
    /\ group_dict = EmptyDict
    /\ directory = {}
    /\ todo = {}

GroupLabelled ==
    \E e \in ReportsWithin(RosterRows, MaxFiles) :
        Group(e) /\ UNCHANGED <<directory, todo>>

FillGroupDict ==
    /\ pc = "done"
    /\ DOMAIN group_map # {}
    /\ group_dict' = fill_group_dict(group_dict, group_map, groups)
    /\ filled' = TRUE
    /\ UNCHANGED <<groups, group_map, records, pc, meeting, match, ingested,
                   rows_read, directory, todo, run, prev_groups, writer,
                   itercsv, trust_topics,
                   grade_level>>

NextLabels == SkipAny \/ RaiseAny \/ GroupLabelled \/ FinishAny \/ FillGroupDict

SpecLabels == InitLabels /\ [][NextLabels]_vars

\* Two runs, each of a new MeetingSet, over one directory of reports whose
\* attendees are all on the roster.  Path.iterdir() yields the entries in
\* arbitrary order: each run takes them from todo in any order.
RosterRowSeqs(maxlen) == UNION { [1..n -> RosterRows] : n \in 0..maxlen }

\* The attendee rows of n reports, at most `budget` rows in all
RECURSIVE RowLists(_, _)
RowLists(n, budget) ==
    IF n = 0 THEN { <<>> }
    ELSE UNION { { <<rows>> \o rest : rest \in RowLists(n - 1, budget - Len(rows)) } :
                   rows \in RosterRowSeqs(budget) }

Directories ==
    { { Report(i, d[i]) : i \in 1..MaxFiles } :
        d \in RowLists(MaxFiles, MaxTotalRows) }

\* Directories of few attendee rows in which the second report is of the
\* day of the first, at another hour
SameDayDirectories ==
    { { IF i = 2
        THEN [Report(i, d[i]) EXCEPT
                !.info.time.fields = <<9, Days[1], 2020, Hours[2], 13>>]
        ELSE Report(i, d[i]) : i \in 1..MaxFiles } :
        d \in RowLists(MaxFiles, MaxTotalRows - 3) }

InitRerun ==
    /\ InitRun
    /\ group_map = EmptyDict
    /\ group_dict = EmptyDict
    /\ directory \in Directories \cup SameDayDirectories
    /\ todo = directory

GroupTodo ==
    \E e \in todo :
        /\ Group(e)
        /\ todo' = todo \ {e}
        /\ UNCHANGED directory

RaiseTodo ==
    \E e \in todo :
        /\ Raise(e)
        /\ todo' = todo \ {e}
        /\ UNCHANGED directory

\* No call of process() is under way: the caller may call another method
BetweenCalls == pc # "iterating" \/ todo = directory

\* MeetingSet.rename_csv_files over a directory of reports: every file is
\* renamed after its topic and date.  Files that get the same name replace
\* one another (Path.rename on a POSIX system): of each new name the file
\* renamed last is left.
RenameCsvFiles ==
    /\ BetweenCalls
    /\ \E left \in SUBSET directory :
          /\ \A e \in directory :
                Cardinality({ f \in left : NewName(f) = NewName(e) }) = 1
          /\ directory' = Renamed(left)
          /\ todo' = Renamed(left \cap todo)
    /\ UNCHANGED <<groups, group_map, group_dict, records, pc, meeting, match,
                   ingested, rows_read, run, prev_groups, filled, writer,
                   itercsv, trust_topics,
                   grade_level>>

\* MeetingSet.generate_group_map_from_topics: the preconditions (no
\* group_map, trust_topics set) failing, it raises; else group_map is made
\* of the topics of the entries, in the order of iterdir(), and group_dict
\* is set to {} when no Meeting has raised.
GenerateGroupMapFromTopics ==
    /\ BetweenCalls
    /\ pc # "raised"
    /\ IF DOMAIN group_map # {} \/ ~trust_topics
       THEN /\ pc' = "raised"
            /\ UNCHANGED <<group_map, group_dict, records>>
       ELSE \E paths \in Orders(directory) :
               LET after == TopicsFrom(paths, EmptyDict, records)
               IN  /\ group_map' = after.group_map
                   /\ records' = after.records
                   /\ group_dict' = IF after.raised THEN group_dict ELSE EmptyDict
                   /\ pc' = IF after.raised THEN "raised" ELSE pc
    /\ UNCHANGED <<groups, meeting, match, ingested, rows_read, directory, todo,
                   run, prev_groups, filled, writer, itercsv, trust_topics,
                   grade_level>>

\* iter_csvs() passes over an entry of the directory that is no report
SkipTodo ==
    \E e \in todo :
        /\ pc = "iterating"
        /\ IsSkipped(e)
        /\ todo' = todo \ {e}
        /\ UNCHANGED <<groups, group_map, group_dict, records, pc, meeting,
                       match, ingested, rows_read, directory, run, prev_groups,
                       filled, writer, itercsv, trust_topics,
                   grade_level>>

\* MeetingSet(dir_path).process() is called again on the same directory
NewRun ==
    /\ pc = "done"
    /\ run = 1
    /\ run' = 2
    /\ prev_groups' = groups
    /\ groups' = <<>>
    /\ pc' = "iterating"
    /\ meeting' = NoMeeting
    /\ match' = 0
    /\ ingested' = <<>>
    /\ rows_read' = 0
    /\ todo' = directory
    /\ UNCHANGED <<group_map, group_dict, records, directory, filled, writer,
                   itercsv, trust_topics,
                   grade_level>>

NextRerun == GroupTodo \/ RaiseTodo \/ FinishAny \/ NewRun \/ RenameCsvFiles

SpecRerun == InitRerun /\ [][NextRerun]_vars

\* One run over a directory of reports of the grades 6, 7 and 8 in which
\* some attendee rows bear a name find_nearest_match finds no student for, or
\* raises Warning on.
UnmatchedRows ==
    { r \in RowChoices : r.name \in {"a", "zz"} }
       \cup { [name |-> "wb", duration |-> "30"], [name |-> "wz", duration |-> "15"] }

GradeDigits == {"6", "7", "8"}

\* The attendee rows of n reports drawn from `choices`, at most `budget` rows
\* in all
RECURSIVE RowListsOf(_, _, _)
RowListsOf(choices, n, budget) ==
    IF n = 0 THEN { <<>> }
    ELSE UNION { { <<rows>> \o rest :
                     rest \in RowListsOf(choices, n - 1, budget - Len(rows)) } :
                   rows \in UNION { [1..k -> choices] : k \in 0..budget } }

\* Directories of MaxFiles - 1 reports, each of any of the grades
DirectoriesUnmatched ==
    { { [Report(i, d[i]) EXCEPT !.name = <<g[i], FileStems[i]>> \o DotCsv] :
          i \in 1..(MaxFiles - 1) } :
        d \in RowListsOf(UnmatchedRows, MaxFiles - 1, MaxTotalRows - 2),
        g \in [1..(MaxFiles - 1) -> GradeDigits] }

InitUnmatched ==
    /\ InitCalls
    /\ grade_level \in {GradesAsRead, GradesAsInt}
    /\ group_map = EmptyDict
    /\ group_dict = EmptyDict
    /\ directory \in DirectoriesUnmatched
    /\ todo = directory

NextUnmatched == GroupTodo \/ RaiseTodo \/ FinishAny

SpecUnmatched == InitUnmatched /\ [][NextUnmatched]_vars

\* One run, with a group_map of the caller or with trust_topics or with
\* neither, over a directory of MaxFiles - 1 reports and perhaps a file that
\* is no report; the caller may call generate_group_map_from_topics() and
\* fill_group_dict().
NotesTxt == CHOOSE e \in SkippedEntries : e.name[1] = "n"

DirectoriesTopics ==
    LET reports ==
          { { Report(i, d[i]) : i \in 1..(MaxFiles - 1) } :
              d \in RowListsOf(RosterRows, MaxFiles - 1, MaxTotalRows - 2) }
    IN  reports \cup { d \cup {NotesTxt} : d \in reports }

InitTopics ==
    /\ groups = <<>>
    /\ records = ResetRecords
    /\ pc = "iterating"
    /\ meeting = NoMeeting
    /\ match = 0
    /\ ingested = <<>>
    /\ rows_read = 0
    /\ run = 1
    /\ prev_groups = <<>>
    /\ filled = FALSE
    /\ writer = NoWriter
    /\ itercsv = NoIterCsv
    /\ trust_topics \in BOOLEAN
    /\ grade_level = GradesAsRead
    /\ group_map \in GroupMaps \cup {EmptyDict}
    /\ group_dict = EmptyDict
    /\ directory \in DirectoriesTopics
    /\ todo = directory

NextTopics ==
    \/ GroupTodo
    \/ SkipTodo
    \/ FinishAny
    \/ GenerateGroupMapFromTopics
    \/ FillGroupDict

SpecTopics == InitTopics /\ [][NextTopics]_vars

\* One run over three reports: the names of the attendee rows of the first
\* are a, b, c, of the second a, b, c, d, of the third x, y, z, the rows of
\* a report standing in any order.
ScenarioNames == << {"a", "b", "c"}, {"a", "b", "c", "d"}, {"x", "y", "z"} >>

ScenarioRows(names) ==
    { [i \in DOMAIN order |-> [name |-> order[i], duration |-> "40"]] :
        order \in { o \in [1..Cardinality(names) -> names] : Range(o) = names } }

GroupScenario ==
    /\ Len(ingested) < Len(ScenarioNames)
    /\ \E rows \in ScenarioRows(ScenarioNames[Len(ingested) + 1]) :
          Group(Report(Len(ingested) + 1, rows))
    /\ UNCHANGED <<directory, todo>>

NextScenario == GroupScenario \/ FinishAny

SpecScenario == Init /\ [][NextScenario]_vars

\* One run over a directory of one report, whose start time rows[1][2] is any
\* time of the 12-hour clock on one of two days
StartTimes ==
    { [fields |-> <<9, day, 2020, hour, minute>>, marker |-> marker] :
        day \in {1, 24}, hour \in 1..12, minute \in {0, 13, 59},
        marker \in {"AM", "PM"} }

DirectoriesTimed ==
    { { [Report(1, << [name |-> "a", duration |-> "40"] >>)
           EXCEPT !.info.time = t] } : t \in StartTimes }

InitTimed ==
    /\ InitRun
    /\ group_map = EmptyDict
    /\ group_dict = EmptyDict
    /\ directory \in DirectoriesTimed
    /\ todo = directory

NextTimed == GroupTodo \/ RaiseTodo \/ FinishAny

SpecTimed == InitTimed /\ [][NextTimed]_vars

---------------------------------------------------------------------------
(* ExcelWriter *)

\* Line 509: the colours a thresholds dict must have
Colours == <<"red", "yellow", "green">>

\* A value of the thresholds dict: an int, or a float of a whole number
FloatValue(n) == [type |-> "float", v |-> n]

ThresholdValues == { IntValue(n) : n \in {-5, 0, 15, 30} } \cup { FloatValue(20) }

\* The dicts a caller may give as attendance_duration_thresholds
ThresholdDicts ==
    { Dict(items) :
        items \in UNION { [keys -> ThresholdValues] : keys \in SUBSET Range(Colours) } }

\* The keyword arguments of ExcelWriter(meetings, **kw)
Kwargs ==
    { EmptyDict } \cup { [k \in {"attendance_duration_thresholds"} |-> th] :
                           th \in ThresholdDicts }

\* kw.get('attendance_duration_thresholds')
GetThresholds(kw) ==
    IF "attendance_duration_thresholds" \in DOMAIN kw
    THEN kw["attendance_duration_thresholds"] ELSE NoThresholds

\* `if self.thresholds:` a dict is true when it is not empty
Truthy(th) == th.type = "dict" /\ DOMAIN th.items # {}

\* Lines 519-523
DefaultThresholds ==
    Dict([c \in Range(Colours) |->
            IntValue(CASE c = "red" -> 0 [] c = "yellow" -> 15 [] c = "green" -> 30)])

\* Lines 509-517: TRUE when one of the asserts fails
ThresholdAssertFails(th) ==
    \/ \E c \in Range(Colours) : c \notin DOMAIN th.items
    \/ ~( /\ th.items["red"].v < th.items["yellow"].v
          /\ th.items["yellow"].v < th.items["green"].v )
    \/ \E k \in DOMAIN th.items : th.items[k].type # "int"

\* ExcelWriter.validate_or_generate_thresholds: TRUE when it raises, and
\* self.thresholds after it when it does not
ValidateRaises(th) == Truthy(th) /\ ThresholdAssertFails(th)

validate_or_generate_thresholds(th) ==
    IF Truthy(th) THEN th ELSE DefaultThresholds

\* ExcelWriter(meetings, **kw): object.__init__ (line 482) raises TypeError
\* when it is handed keyword arguments, before the thresholds are read
NewWriter(kw) ==
    /\ writer.pc = "none"
    /\ LET th == GetThresholds(kw)
       IN  writer' =
             IF DOMAIN kw # {} \/ ValidateRaises(th)
             THEN [writer EXCEPT !.pc = "raised", !.given = th]
             ELSE [writer EXCEPT !.pc = "ready", !.given = th,
                                 !.thresholds = validate_or_generate_thresholds(th)]
    /\ UNCHANGED <<groups, group_map, group_dict, records, pc, meeting, match,
                   ingested, rows_read, directory, todo, run, prev_groups,
                   filled, itercsv, trust_topics,
                   grade_level>>

\* The caller sets the thresholds of a writer and has them validated:
\* writer.thresholds = th; writer.validate_or_generate_thresholds()
Validate(th) ==
    /\ writer.pc = "ready"
    /\ writer' =
          IF ValidateRaises(th)
          THEN [writer EXCEPT !.pc = "raised", !.given = th, !.thresholds = th]
          ELSE [writer EXCEPT !.given = th,
                              !.thresholds = validate_or_generate_thresholds(th)]
    /\ UNCHANGED <<groups, group_map, group_dict, records, pc, meeting, match,
                   ingested, rows_read, directory, todo, run, prev_groups,
                   filled, itercsv, trust_topics,
                   grade_level>>

\* Lines 555-580: the cells write_master_sheet fills in, the key of the colours
KeyCells == {"A1", "A2", "A3", "B3", "A4", "B4", "A5", "B5"}

KeySheet(th) ==
    [c \in KeyCells |->
       CASE c = "A1" -> [fill |-> "none", value |-> <<"Zoom Attendance Report">>]
         [] c = "A2" -> [fill |-> "none", value |-> <<"Key">>]
         [] c = "A3" -> [fill |-> "green", value |-> <<>>]
         [] c = "B3" -> [fill |-> "none", value |-> <<"Green", th.items["green"].v>>]
         [] c = "A4" -> [fill |-> "yellow", value |-> <<>>]
         [] c = "B4" -> [fill |-> "none", value |-> <<"Yellow", th.items["yellow"].v>>]
         [] c = "A5" -> [fill |-> "red", value |-> <<>>]
         [] c = "B5" -> [fill |-> "none", value |-> <<"Red", th.items["red"].v>>] ]

\* ExcelWriter.generate_report up to line 582: write_master_sheet writes the
\* title and the key and waits in breakpoint() for the debugger.  Nothing is
\* saved or raised yet; group_dict is read only after the wait.
GenerateReport ==
    /\ writer.pc = "ready"
    /\ writer' = [writer EXCEPT !.sheet = KeySheet(writer.thresholds),
                                !.pc = "breakpoint"]
    /\ UNCHANGED <<groups, group_map, group_dict, records, pc, meeting, match,
                   ingested, rows_read, directory, todo, run, prev_groups,
                   filled, itercsv, trust_topics,
                   grade_level>>

\* What becomes of breakpoint() (line 582): the run goes on (the debugger is
\* told to continue, or PYTHONBREAKPOINT=0 makes the call a no-op), or the
\* debugger is quit or finds its input at end of file and raises BdbQuit.
DebuggerAnswers == {"continue", "quit"}

\* ExcelWriter.generate_report from line 582 on.  When the debugger quits,
\* BdbQuit leaves generate_report.  Otherwise write_master_sheet reads
\* self.meetings.group_dict as it is now: an attribute a MeetingSet without
\* group_map does not have (AttributeError); for a group_dict that is not
\* empty it calls write_group_dict_item with the undefined name meeting_name
\* (NameError); only with an empty group_dict the workbook is saved
\* (line 550).
LeaveBreakpoint(debugger) ==
    /\ writer.pc = "breakpoint"
    /\ writer' =
          [writer EXCEPT
             !.pc = IF \/ debugger = "quit"
                       \/ DOMAIN group_map = {}
                       \/ DOMAIN group_dict # {}
                    THEN "report_raised" ELSE "saved"]
    /\ UNCHANGED <<groups, group_map, group_dict, records, pc, meeting, match,
                   ingested, rows_read, directory, todo, run, prev_groups,
                   filled, itercsv, trust_topics,
                   grade_level>>

NewWriterAny == \E kw \in Kwargs : NewWriter(kw)

ValidateAny == \E th \in ThresholdDicts \cup {NoThresholds} : Validate(th)

NextWriter == NewWriterAny \/ ValidateAny

\* An ExcelWriter is made for a MeetingSet that has not read a file
SpecWriter == Init /\ [][NextWriter]_vars

\* A MeetingSet, with a group_map or without, reads MaxFiles - 1 reports at
\* most; an ExcelWriter with the default thresholds writes its report.
\* While generate_report waits at its breakpoint the caller's other threads
\* go on with the MeetingSet.
InitReport ==
    /\ InitRun
    /\ group_map \in GroupMaps \cup {EmptyDict}
    /\ group_dict = EmptyDict
    /\ directory = {}
    /\ todo = {}

GroupReport ==
    \E e \in ReportsWithin(RosterRows, MaxFiles - 1) :
        Group(e) /\ UNCHANGED <<directory, todo>>

NewWriterDefault == NewWriter(EmptyDict)

LeaveBreakpointAny ==
    \E debugger \in DebuggerAnswers : LeaveBreakpoint(debugger)

NextReport ==
    \/ GroupReport
    \/ FinishAny
    \/ FillGroupDict
    \/ NewWriterDefault
    \/ GenerateReport
    \/ LeaveBreakpointAny

SpecReport == InitReport /\ [][NextReport]_vars

---------------------------------------------------------------------------
(* IterCsv (HelperMixins/oncourse_mixin.py) *)

\* str.lower() on a string given as a sequence of characters
LowerChar(c) ==
    CASE c = "F" -> "f" [] c = "G" -> "g" [] c = "L" -> "l" [] c = "N" -> "n"
      [] OTHER -> c

Lower(str) == [i \in DOMAIN str |-> LowerChar(str[i])]

\* `a in b` for two strings
IsIn(a, b) ==
    \E k \in 0..(Len(b) - Len(a)) : SubSeq(b, k + 1, k + Len(a)) = a

\* Two of the acceptable_headers of new_school_year (lines 74-80)
FirstName == <<"f", "i", "r", "s", "t", " ", "n", "a", "m", "e">>

GradeLevel == <<"g", "r", "a", "d", "e", " ", "l", "e", "v", "e", "l">>

acceptable_headers == <<FirstName, GradeLevel>>

\* Header rows (rows[0]) of a csv: capitalised, abbreviated, and one whose
\* second header is a part of 'first name' too
HeaderRows ==
    { << <<"F", "i", "r", "s", "t", " ", "N", "a", "m", "e">>,
         <<"G", "r", "a", "d", "e", " ", "L", "e", "v", "e", "l">> >>,
      << FirstName, <<"g", "r", "a", "d", "e">> >>,
      << FirstName, <<"N", "a", "m", "e">> >> }

\* Data rows of a csv
DataRows == { <<"Ann", "6">>, <<"Bob", "7">>, <<"Cy", "6">> }

CsvFiles ==
    { <<header>> \o data :
        header \in HeaderRows,
        data \in UNION { [1..n -> DataRows] : n \in 0..MaxCsvRows } }

\* Lines 21-44: the context is assigned header by header (i, from 1) and
\* acceptable header by acceptable header (j): self.context[clean_header] = i
\* is done first, and when the dict has not grown by it (the acceptable header
\* was matched before and is now overwritten) the constructor raises.
RECURSIVE AssignContext(_, _, _, _, _, _)
AssignContext(raw_headers, headers, strict, i, j, context) ==
    IF i > Len(raw_headers) THEN [raised |-> FALSE, context |-> context]
    ELSE IF j > Len(headers)
         THEN AssignContext(raw_headers, headers, strict, i + 1, 1, context)
         ELSE LET raw_header   == Lower(raw_headers[i])
                  clean_header == headers[j]
                  hit == \/ (~strict /\ IsIn(clean_header, raw_header))
                         \/ IsIn(raw_header, clean_header)
                         \/ (strict /\ clean_header = raw_header)
                  after == SetItem(context, clean_header, i - 1)
              IN  IF ~hit
                  THEN AssignContext(raw_headers, headers, strict, i, j + 1, context)
                  ELSE IF Cardinality(DOMAIN context) = Cardinality(DOMAIN after)
                       THEN [raised |-> TRUE, context |-> after]
                       ELSE AssignContext(raw_headers, headers, strict, i, j + 1,
                                          after)

\* IterCsv(acceptable_headers, rows, strict)
NewIterCsv(rows, strict) ==
    /\ itercsv.pc = "none"
    /\ LET made == AssignContext(rows[1], acceptable_headers, strict, 1, 1, EmptyDict)
       IN  itercsv' =
             [ pc          |-> IF made.raised THEN "raised" ELSE "iterating",
               rows        |-> rows,
               current_row |-> 0,
               context     |-> made.context,
               yielded     |-> <<>> ]
    /\ UNCHANGED <<groups, group_map, group_dict, records, pc, meeting, match,
                   ingested, rows_read, directory, todo, run, prev_groups,
                   filled, writer, trust_topics,
                   grade_level>>

\* IterCsv.__next__, as the for loop of new_school_year calls it: the pair
\* returned is kept in `yielded`; StopIteration ends the loop.
\* (self.rows[self.current_row] is rows[current_row + 1] here, sequences
\* being indexed from 1.)
NextRow ==
    /\ itercsv.pc = "iterating"
    /\ LET current_row == itercsv.current_row + 1
       IN  itercsv' =
             IF current_row < Len(itercsv.rows) - 1
             THEN [itercsv EXCEPT
                     !.current_row = current_row,
                     !.yielded = Append(@, <<itercsv.context,
                                             itercsv.rows[current_row + 1]>>)]
             ELSE [itercsv EXCEPT !.current_row = current_row, !.pc = "stopped"]
    /\ UNCHANGED <<groups, group_map, group_dict, records, pc, meeting, match,
                   ingested, rows_read, directory, todo, run, prev_groups,
                   filled, writer, trust_topics,
                   grade_level>>

NewIterCsvAny == \E rows \in CsvFiles : \E strict \in BOOLEAN : NewIterCsv(rows, strict)

NextCsv == NewIterCsvAny \/ NextRow

SpecCsv == Init /\ [][NextCsv]_vars

---------------------------------------------------------------------------
(* Properties *)

\* The index of the group that holds the meeting read from file `path`
GroupOf(path) ==
    CHOOSE i \in DOMAIN groups : \E k \in DOMAIN groups[i] : groups[i][k].path = path

\* C1: a meeting joins the first group, in creation order, whose biggest
\* meeting P passes total * 0.75 > union; a later group that passes as well
\* is never chosen.
C1_FirstMatchingGroupWins ==
    [][ ingested' # ingested =>
          LET R == meeting'
              Passes(g) ==
                LET P     == MaxMeeting(g)
                    union == Cardinality(Range(P.attendees) \cup Range(R.attendees))
                    total == Cardinality(Range(P.attendees))
                               + Cardinality(Range(R.attendees))
                IN  total * 3 > union * 4
          IN  \A i \in DOMAIN groups :
                (Passes(groups[i]) /\ \A j \in 1..(i - 1) : ~Passes(groups[j]))
                   => groups' = [groups EXCEPT ![i] = Append(@, R)]
      ]_vars

\* C1 witness: the meeting joined a group although a later group passes the
\* test too.
C1_Witness ==
    /\ meeting # NoMeeting
    /\ match # 0
    /\ meeting = groups[match][Len(groups[match])]
    /\ \E j \in (match + 1)..Len(groups) :
          LET P     == MaxMeeting(groups[j])
              union == Cardinality(Range(P.attendees) \cup Range(meeting.attendees))
              total == Cardinality(Range(P.attendees))
                         + Cardinality(Range(meeting.attendees))
          IN  total * 3 > union * 4

\* C2: when no group passes the test, exactly one new group holding only the
\* meeting is appended and every existing group is left as it was.
C2_NoMatchAppendsSingleton ==
    [][ ingested' # ingested =>
          LET R == meeting'
              Passes(g) ==
                LET P     == MaxMeeting(g)
                    union == Cardinality(Range(P.attendees) \cup Range(R.attendees))
                    total == Cardinality(Range(P.attendees))
                               + Cardinality(Range(R.attendees))
                IN  total * 3 > union * 4
          IN  (\A i \in DOMAIN groups : ~Passes(groups[i]))
                => /\ Len(groups') = Len(groups) + 1
                   /\ groups'[Len(groups')] = <<R>>
                   /\ \A i \in DOMAIN groups : groups'[i] = groups[i]
      ]_vars

\* C2 witness: a meeting that matched none of two existing groups started a
\* third one.
C2_Witness ==
    /\ meeting # NoMeeting
    /\ match = 0
    /\ Len(groups) >= 3
    /\ groups[Len(groups)] = <<meeting>>

\* C3: the meeting a group is compared by is the one with the most distinct
\* attendees among its meetings, the earliest of them when several have as
\* many.
C3_RepresentativeHasMostDistinctAttendees ==
    pc = "iterating" =>
       \A i \in DOMAIN groups :
          LET g == groups[i]
              Distinct(m) == Cardinality(Range(m.attendees))
              k == CHOOSE k \in DOMAIN g :
                      /\ \A l \in DOMAIN g : Distinct(g[l]) <= Distinct(g[k])
                      /\ \A l \in 1..(k - 1) : Distinct(g[l]) < Distinct(g[k])
          IN  MaxMeeting(g) = g[k]

\* C4 as stated: two meetings with the same non-empty set of attendees are in
\* the same group, whatever was grouped before, between or after them.
C4_SameAttendeesSameGroup ==
    \A i, j \in DOMAIN ingested :
       ( /\ i < j
         /\ ingested[i].attendees # <<>>
         /\ Range(ingested[i].attendees) = Range(ingested[j].attendees) )
       => GroupOf(ingested[i].path) = GroupOf(ingested[j].path)

\* C4 amended: two meetings with the same non-empty set of attendees that are
\* grouped one right after the other are in the same group, whatever was
\* grouped before or after them.
C4_ConsecutiveSameAttendeesSameGroup ==
    \A i \in DOMAIN ingested :
       ( /\ i + 1 \in DOMAIN ingested
         /\ ingested[i].attendees # <<>>
         /\ Range(ingested[i].attendees) = Range(ingested[i + 1].attendees) )
       => GroupOf(ingested[i].path) = GroupOf(ingested[i + 1].path)

\* C4 witness: two such meetings were grouped one after the other, after a
\* group existed and before another meeting, and are in a later group.
C4_Witness ==
    \E i \in DOMAIN ingested :
       /\ i > 1
       /\ i + 2 \in DOMAIN ingested
       /\ ingested[i].attendees # <<>>
       /\ Range(ingested[i].attendees) = Range(ingested[i + 1].attendees)
       /\ GroupOf(ingested[i].path) = GroupOf(ingested[i + 1].path)
       /\ GroupOf(ingested[i].path) > 1

\* C5: a meeting without attendees never makes process() raise and always
\* starts a new group of its own, also when the biggest meeting of an existing
\* group has no attendees either.
C5_EmptyMeetingStartsNewGroup ==
    [][ (ingested' # ingested /\ meeting'.attendees = <<>>) =>
          /\ pc' = "iterating"
          /\ match' = 0
          /\ groups' = Append(groups, <<meeting'>>)
      ]_vars

\* C5 witness: a meeting without attendees started a new group while an
\* earlier group held only a meeting without attendees.
C5_Witness ==
    /\ meeting # NoMeeting
    /\ meeting.attendees = <<>>
    /\ Len(groups) >= 3
    /\ groups[Len(groups)] = <<meeting>>
    /\ \E i \in 1..(Len(groups) - 1) : MaxMeeting(groups[i]).attendees = <<>>
    /\ \E i \in 1..(Len(groups) - 1) : MaxMeeting(groups[i]).attendees # <<>>

\* C6: after fill_group_dict(), every label of a tagged report that was read
\* is mapped to the very group that holds the report, and no group without a
\* tagged report is a value of group_dict (the labels being distinct).
C6_LabelsMapToTheirGroups ==
    (filled /\ \A n1, n2 \in DOMAIN group_map :
                  group_map[n1] = group_map[n2] => n1 = n2)
    => /\ \A m \in Range(ingested) :
             m.path \in DOMAIN group_map =>
                /\ group_map[m.path] \in DOMAIN group_dict
                /\ group_dict[group_map[m.path]] = GroupRef(GroupOf(m.path))
       /\ \A l \in DOMAIN group_dict :
             /\ group_dict[l].kind = "group"
             /\ \E k \in DOMAIN groups[group_dict[l].index] :
                   /\ groups[group_dict[l].index][k].path \in DOMAIN group_map
                   /\ group_map[groups[group_dict[l].index][k].path] = l

\* C7: a report on which Meeting.open_report raises ends only that file:
\* process() is never left by the exception.
C7_BrokenReportDoesNotEndTheRun == pc # "raised"

\* C8: a meeting whose attendees are a subset of those of a group's biggest
\* meeting passes the test of the group when at least 75% of them attend,
\* and does not join the group when half of them or fewer attend.
C8_MatchNeedsThreeQuarters ==
    [][ ingested' # ingested =>
          \A i \in DOMAIN groups :
             LET P == Range(MaxMeeting(groups[i]).attendees)
                 R == Range(meeting'.attendees)
             IN  (R \subseteq P /\ R # {}) =>
                   /\ Cardinality(R) * 4 >= Cardinality(P) * 3
                         => (match' # 0 /\ match' <= i)
                   /\ Cardinality(R) * 2 <= Cardinality(P) => match' # i
      ]_vars

\* C9: two runs over the same directory end with the same groups: the same
\* reports are grouped together in both (already without regard to the
\* order of the groups or of the meetings in a group).
C9_RerunGivesSameGroups ==
    (run = 2 /\ pc = "done") =>
       { { g[k].path : k \in DOMAIN g } : g \in Range(groups) }
          = { { g[k].path : k \in DOMAIN g } : g \in Range(prev_groups) }

\* C10: for every meeting read so far and every student, the student is an
\* attendee of the meeting exactly when the student's zoom_attendance_record
\* has an entry for the meeting.
C10_RecordsKeepEveryMeeting ==
    \A m \in Range(ingested) : \A s \in Students :
       (s \in Range(m.attendees))
          <=> (RecordKey(m.topic, m.datetime) \in DOMAIN records[s])

\* C11: the attendees of a meeting never hold the same student twice, also
\* when several rows of the report match the same student, so that the size
\* meetings are ranked by (Meeting.__gt__) is the number of distinct attendees.
C11_AttendeesAreDistinct ==
    \A m \in Range(ingested) :
       /\ \A i, j \in DOMAIN m.attendees :
             m.attendees[i] = m.attendees[j] => i = j
       /\ Len(m.attendees) = Cardinality(Range(m.attendees))

\* The meeting made from the report of the directory named `path`
MeetingOf(path) ==
    CHOOSE m \in Range(ingested) : m.path = path

\* C12: a row whose name is resolved to no student is dropped and nothing is
\* raised: for every report read, the run has not raised, the attendees are
\* exactly the students of the rows that are resolved, in row order, and the
\* meeting is in a group; for the report read last, a student has a duration
\* record exactly when a row is resolved to the student, with the duration of
\* the first such row.
C12_UnmatchedRowsAreDropped ==
    \A e \in directory \ todo :
       LET grade   == DigitValue(e.name[1])
           matched == SelectSeq(e.rows,
                                LAMBDA r : match_student(r.name, grade) \in Students)
           m       == MeetingOf(e.name)
           key     == RecordKey(e.info.topic, m.datetime)
       IN  /\ pc # "raised"
           /\ \E m2 \in Range(ingested) : m2.path = e.name
           /\ m.attendees =
                 [i \in DOMAIN matched |-> match_student(matched[i].name, grade)]
           /\ \E g \in DOMAIN groups : \E k \in DOMAIN groups[g] : groups[g][k] = m
           /\ meeting = m =>
                \A s \in Students :
                   LET mine == SelectSeq(e.rows,
                                         LAMBDA r : match_student(r.name, grade) = s)
                   IN  IF mine = <<>> THEN key \notin DOMAIN records[s]
                       ELSE /\ key \in DOMAIN records[s]
                            /\ records[s][key] = mine[1].duration

\* The thresholds are not what the configuration has to be: a colour is
\* missing, a value is no integer or is negative, or red < yellow < green
\* does not hold.  (An empty dict is taken as no thresholds given.)
InvalidThresholds(th) ==
    /\ th.type = "dict"
    /\ DOMAIN th.items # {}
    /\ \/ \E c \in Range(Colours) : c \notin DOMAIN th.items
       \/ \E k \in DOMAIN th.items : th.items[k].type # "int"
       \/ \E k \in DOMAIN th.items : th.items[k].v < 0
       \/ th.items["red"].v >= th.items["yellow"].v
       \/ th.items["yellow"].v >= th.items["green"].v

\* C13: thresholds that are not strictly increasing, not integers, negative
\* or without one of the colours are rejected: the writer raises, it is never
\* ready with them, and no meeting has been grouped.
C13_InvalidThresholdsAreRejected ==
    (writer.pc # "none" /\ InvalidThresholds(writer.given))
       => (writer.pc = "raised" /\ groups = <<>>)

\* int(duration) of the durations of RowChoices
Minutes(d) ==
    CASE d = "40" -> 40 [] d = "20" -> 20 [] d = "10" -> 10 [] d = "5" -> 5

\* The highest colour whose threshold n minutes meet or exceed
Bucket(th, n) ==
    IF n >= th.items["green"].v THEN "green"
    ELSE IF n >= th.items["yellow"].v THEN "yellow"
    ELSE IF n >= th.items["red"].v THEN "red"
    ELSE "none"

\* C14: once generate_report has saved the report, every duration in a
\* student's record is shown in the colour of the highest threshold it meets
\* or exceeds: the sheet has, apart from the key, a cell filled with that
\* colour.
C14_DurationsAreClassified ==
    writer.pc = "saved" =>
       \A s \in Students : \A k \in DOMAIN records[s] :
          LET colour == Bucket(writer.thresholds, Minutes(records[s][k]))
          IN  colour # "none" =>
                \E c \in (DOMAIN writer.sheet) \ KeyCells :
                   writer.sheet[c].fill = colour

\* datetime <= datetime, on <<year, month, day, hour, minute>>
RECURSIVE TupleLeq(_, _)
TupleLeq(a, b) ==
    IF a = <<>> THEN TRUE
    ELSE IF Head(a) # Head(b) THEN Head(a) < Head(b)
         ELSE TupleLeq(Tail(a), Tail(b))

\* C15: every group is chronologically sorted: of two meetings of a group,
\* the one that stands first does not start later than the other.
C15_GroupsAreChronological ==
    \A g \in DOMAIN groups : \A k, l \in DOMAIN groups[g] :
       k < l => TupleLeq(groups[g][k].datetime, groups[g][l].datetime)

\* C16: the reports with the attendees {A,B,C}, {A,B,C,D} and {X,Y,Z}, read in
\* this order, end in exactly two groups: the first two meetings in this
\* order, and the third alone.
C16_ScenarioGivesTwoGroups ==
    (pc = "done" /\ Len(ingested) = 3) =>
       /\ Len(groups) = 2
       /\ groups[1] = <<ingested[1], ingested[2]>>
       /\ groups[2] = <<ingested[3]>>
       /\ Range(groups[1][1].attendees) = {"A", "B", "C"}
       /\ Range(groups[1][2].attendees) = {"A", "B", "C", "D"}
       /\ Range(groups[2][1].attendees) = {"X", "Y", "Z"}

\* C16 witness: the three reports were read and grouped, the run is over.
C16_Witness ==
    /\ pc = "done"
    /\ Len(ingested) = 3
    /\ Len(groups) = 2
    /\ Len(groups[1]) = 2
    /\ Range(ingested[3].attendees) = {"X", "Y", "Z"}

\* C17: fill_group_dict called again on the same groups and group_map gives
\* the group_dict the first call left, and no call of it changes the groups.
C17_FillGroupDictIsIdempotent ==
    /\ [](filled => fill_group_dict(group_dict, group_map, groups) = group_dict)
    /\ [][filled' => groups' = groups]_vars

\* C17 witness: fill_group_dict has run on two groups or more and has set a
\* label, which process() had given the single tagged meeting, to the whole
\* group of that meeting.
C17_Witness ==
    /\ filled
    /\ Len(groups) >= 2
    /\ \E l \in DOMAIN group_dict :
          /\ group_dict[l].kind = "group"
          /\ Len(groups[group_dict[l].index]) >= 2
          /\ \E k \in 2..Len(groups[group_dict[l].index]) :
                /\ groups[group_dict[l].index][k].path \in DOMAIN group_map
                /\ group_map[groups[group_dict[l].index][k].path] = l

\* C18: the groups partition the meetings read: every meeting read stands at
\* exactly one place of exactly one group, no group is empty, the meetings of
\* a group stand in the order they were read; and a step of process() never
\* removes or moves a group or a meeting of a group: every group stays at its
\* index and only grows at its end.
C18_GroupsPartitionTheMeetings ==
    /\ []( /\ \A i \in DOMAIN ingested :
                Cardinality({ <<g, k>> \in (DOMAIN groups) \X (1..Len(ingested)) :
                                k \in DOMAIN groups[g]
                                /\ groups[g][k] = ingested[i] }) = 1
           /\ \A g \in DOMAIN groups :
                /\ groups[g] # <<>>
                /\ \A k \in DOMAIN groups[g] :
                      \E i \in DOMAIN ingested : ingested[i] = groups[g][k]
                /\ \A k, l \in DOMAIN groups[g] :
                      k < l =>
                         \E i, j \in DOMAIN ingested :
                            /\ i < j
                            /\ ingested[i] = groups[g][k]
                            /\ ingested[j] = groups[g][l] )
    /\ [][ /\ Len(groups') >= Len(groups)
           /\ \A g \in DOMAIN groups :
                /\ Len(groups'[g]) >= Len(groups[g])
                /\ SubSeq(groups'[g], 1, Len(groups[g])) = groups[g]
         ]_vars

\* C18 witness: three meetings were read, the first and the third are a
\* group, the second is another, and the run is over.
C18_Witness ==
    /\ pc = "done"
    /\ Len(ingested) = 3
    /\ groups = << <<ingested[1], ingested[3]>>, <<ingested[2]>> >>

\* The hour of the day, 0..23, of an hour of the 12-hour clock
HourOfDay(hour, marker) ==
    IF marker = "AM" THEN (IF hour = 12 THEN 0 ELSE hour)
    ELSE (IF hour = 12 THEN 12 ELSE hour + 12)

\* C19: for every start time of the 12-hour clock, open_report does not raise
\* and the hour of Meeting.datetime is the hour of the day, in 0..23: 12 for
\* 12 pm, 0 for 12 am, 13 for 1 pm.
C19_HourOfDayIsRight ==
    \A e \in directory \ todo :
       /\ pc # "raised"
       /\ \E m \in Range(ingested) :
             /\ m.path = e.name
             /\ m.datetime[4] \in 0..23
             /\ m.datetime[4] = HourOfDay(e.info.time.fields[4], e.info.time.marker)

\* C20: when the iteration over an IterCsv has stopped, the rows yielded are
\* the data rows r1..rn (all rows but the header), each once, in order, each
\* with the context of the header row; the last data row is among them.
C20_EveryDataRowIsYielded ==
    itercsv.pc = "stopped" =>
       itercsv.yielded =
          [i \in 1..(Len(itercsv.rows) - 1) |->
             <<itercsv.context, itercsv.rows[i + 1]>>]

===========================================================================
